---- MODULE Spec2Model ----
(***************************************************************************)
(* primrose-mcp-gcloud: a Cloudflare Worker that serves MCP tools over the *)
(* Google Cloud REST APIs.  The model follows one inbound HTTP request     *)
(* through the worker's fetch handler (src/src/index.ts), the tool handler *)
(* it dispatches to (src/src/tools/*.ts), the client's request helper      *)
(* (src/src/client.ts) and the response formatters                         *)
(* (src/src/utils/formatters.ts).  Every await of an outbound fetch is a   *)
(* step boundary, so that handlers of different inbound requests           *)
(* interleave exactly where the JavaScript event loop lets them.           *)
(*                                                                         *)
(* JavaScript values are modelled as follows: an object is a record, an    *)
(* array a sequence, `undefined` the record Undefined, a thrown Error a    *)
(* record with a `class` field and the constructor's arguments, a string   *)
(* that is encoded or parsed a sequence of UTF-16 code units, and          *)
(* JSON.stringify(v) the record [json |-> v].                              *)
(***************************************************************************)
EXTENDS Integers, Sequences, FiniteSets, TLC

VARIABLES
    pc,          \* per inbound request: idle, dispatch, invalid, awaiting, done,
                 \* responded
    inbound,     \* per inbound request: the Request the worker received
    credentials, \* per inbound request: the `credentials` local of fetch()
    server,      \* per inbound request: the tools registered on its McpServer
    client,      \* per inbound request: the GCloudClientImpl of its server
    call,        \* per inbound request: the tool call being served
    sent,        \* per inbound request: the outbound fetches issued, in order
    responses,   \* per inbound request: the outcomes of those fetches, in order
    returned,    \* per inbound request: what request() evaluated to for each
    result,      \* per inbound request: the envelope the tool handler returned
    httpResp,    \* per inbound request: the Response fetch() built itself
    iamPolicy,   \* the provider: the IAM policy of the project
    store,       \* the provider: the messages of the topic, the secret's versions
    agent        \* the GCloudMcpAgent durable object

vars == <<pc, inbound, credentials, server, client, call, sent, responses,
          returned, result, httpResp, iamPolicy, store, agent>>

-----------------------------------------------------------------------------
(* Bounds *)

\* Inbound requests in flight at the same time (specification SpecConc).
NReq == 2

Reqs == 1 .. NReq

-----------------------------------------------------------------------------
(* JavaScript values *)

Undefined == [jsUndefined |-> TRUE]

IsUndefined(v) == "jsUndefined" \in DOMAIN v

\* No value yet (a local not assigned, an object not built).
None == [none |-> TRUE]

IsNone(v) == "none" \in DOMAIN v

EmptyObject == [f \in {} |-> TRUE]

\* `a[f] || d` for an object a that may lack the field f, d a fallback.
FieldOr(a, f, d) == IF f \in DOMAIN a THEN a[f] ELSE d

-----------------------------------------------------------------------------
(* src/src/index.ts: constants *)

SERVER_NAME == "primrose-mcp-gcloud"

SERVER_VERSION == "1.0.0"

-----------------------------------------------------------------------------
(* src/src/utils/formatters.ts *)

JSONstringify(v) == [json |-> v]

\* formatResponse(data, 'json'): every tool passes the 'json' format.
formatResponse(data) ==
    [content |-> <<[type |-> "text", text |-> JSONstringify(data)]>>]

IsErrorInstance(e) == "class" \in DOMAIN e

\* Mutant: the envelope of an error lacks the isError flag.
formatErrorWithoutFlag(error) ==
    [content |-> <<[type |-> "text",
                   text |-> JSONstringify([error |-> TRUE, of |-> error])]>>]

\* formatError(error): name, message, code and statusCode are read off the
\* error object, modelled as the object itself under `of`.
formatError(error) ==
    [content |-> <<[type |-> "text",
                   text |-> IF IsErrorInstance(error)
                            THEN JSONstringify([error |-> TRUE, of |-> error])
                            ELSE JSONstringify([error |-> TRUE, message |-> error])]>>,
     isError |-> TRUE]

HasIsError(env) == "isError" \in DOMAIN env

-----------------------------------------------------------------------------
(* JavaScript built-ins used by the client and the handlers.  A string that *)
(* is encoded or parsed is a sequence of UTF-16 code units.               *)

\* A thrown value: [threw |-> TRUE, error |-> e]; a returned one:
\* [threw |-> FALSE, value |-> v].
Throw(e) == [threw |-> TRUE, error |-> e]

Return(v) == [threw |-> FALSE, value |-> v]

\* Base64 text is a sequence of alphabet indices 0..63, with 64 for '='.
RECURSIVE Base64Encode(_)
Base64Encode(b) ==
    IF b = <<>> THEN <<>>
    ELSE IF Len(b) = 1
         THEN <<b[1] \div 4, (b[1] % 4) * 16, 64, 64>>
    ELSE IF Len(b) = 2
         THEN <<b[1] \div 4, (b[1] % 4) * 16 + (b[2] \div 16), (b[2] % 16) * 4, 64>>
    ELSE <<b[1] \div 4, (b[1] % 4) * 16 + (b[2] \div 16),
           (b[2] % 16) * 4 + (b[3] \div 64), b[3] % 64>>
         \o Base64Encode(SubSeq(b, 4, Len(b)))

\* btoa(s): InvalidCharacterError when a code unit is outside Latin-1.
btoa(s) ==
    IF \E i \in 1 .. Len(s) : s[i] > 255
    THEN Throw([class |-> "InvalidCharacterError"])
    ELSE Return(Base64Encode(s))

\* Base64 text without its padding: one or two trailing '=' of a text whose
\* length is a multiple of four.
StripPadding(c) ==
    IF c # <<>> /\ Len(c) % 4 = 0 /\ c[Len(c)] = 64
    THEN IF c[Len(c) - 1] = 64 THEN SubSeq(c, 1, Len(c) - 2)
         ELSE SubSeq(c, 1, Len(c) - 1)
    ELSE c

\* The bytes of unpadded base64 text; the bits left over are dropped.
RECURSIVE Base64Decode(_)
Base64Decode(c) ==
    IF Len(c) < 2 THEN <<>>
    ELSE IF Len(c) = 2 THEN <<c[1] * 4 + (c[2] \div 16)>>
    ELSE IF Len(c) = 3
         THEN <<c[1] * 4 + (c[2] \div 16), (c[2] % 16) * 16 + (c[3] \div 4)>>
    ELSE <<c[1] * 4 + (c[2] \div 16), (c[2] % 16) * 16 + (c[3] \div 4),
           (c[3] % 4) * 64 + c[4]>>
         \o Base64Decode(SubSeq(c, 5, Len(c)))

\* atob(c): InvalidCharacterError when, padding removed, the length is 1
\* modulo 4 or a '=' is left.
atob(c) ==
    LET t == StripPadding(c)
    IN  IF Len(t) % 4 = 1 \/ \E i \in 1 .. Len(t) : t[i] = 64
        THEN Throw([class |-> "InvalidCharacterError"])
        ELSE Return(Base64Decode(t))

IsDigit(c) == c >= 48 /\ c <= 57

IsSpace(c) == c \in {9, 10, 11, 12, 13, 32}

RECURSIVE SkipSpace(_)
SkipSpace(s) == IF s # <<>> /\ IsSpace(Head(s)) THEN SkipSpace(Tail(s)) ELSE s

RECURSIVE DigitsValue(_, _)
DigitsValue(s, acc) ==
    IF s # <<>> /\ IsDigit(Head(s))
    THEN DigitsValue(Tail(s), acc * 10 + (Head(s) - 48))
    ELSE acc

\* parseInt(s, 10): leading white space, an optional sign, then the longest
\* prefix of decimal digits; NaN when there is none.
parseInt(s) ==
    LET t == SkipSpace(s)
        neg == t # <<>> /\ Head(t) = 45
        u == IF t # <<>> /\ Head(t) \in {43, 45} THEN Tail(t) ELSE t
    IN  IF u = <<>> \/ ~IsDigit(Head(u))
        THEN [nan |-> TRUE, n |-> 0]
        ELSE [nan |-> FALSE, n |-> IF neg THEN 0 - DigitsValue(u, 0) ELSE DigitsValue(u, 0)]

Num(n) == [nan |-> FALSE, n |-> n]

-----------------------------------------------------------------------------
(* src/src/client.ts: GCloudClientImpl *)

\* new GCloudClientImpl(credentials)
GCloudClientImpl(creds) == [credentials |-> creds]

\* createGCloudClient(credentials), the exported constructor function.
createGCloudClient(creds) == GCloudClientImpl(creds)

\* Mutant: the headers are built without looking at the token.
getAuthHeadersUnchecked(this) ==
    Return([Authorization |-> <<"Bearer", this.credentials.accessToken>>,
            ContentType |-> "application/json"])

\* getAuthHeaders(): `!accessToken` holds of undefined and of the empty string.
getAuthHeaders(this) ==
    IF this.credentials.accessToken = ""
    THEN Throw([class |-> "AuthenticationError",
                message |-> "No access token provided. Include X-GCloud-Access-Token header."])
    ELSE Return([Authorization |-> <<"Bearer", this.credentials.accessToken>>,
                 ContentType |-> "application/json"])

\* request(), up to its await: the argument of fetch(), or the exception of
\* getAuthHeaders().  No client method passes options.headers.
requestFetch(this, url, options) ==
    LET h == getAuthHeaders(this)
    IN  IF h.threw THEN h
        ELSE Return([url |-> url,
                     method |-> FieldOr(options, "method", "GET"),
                     headers |-> h.value,
                     body |-> FieldOr(options, "body", Undefined)])

\* response.ok
ResponseOk(status) == status >= 200 /\ status <= 299

\* The message of the generic error: errorJson.error?.message ||
\* errorJson.message || `API error: ${status}`; a body that is not JSON
\* leaves the default.
ApiErrorMessage(status, body) ==
    LET default == "API error: " \o ToString(status)
    IN  IF ~body.json THEN default
        ELSE IF "error" \in DOMAIN body.value /\ "message" \in DOMAIN body.value.error
                /\ body.value.error.message # ""
             THEN body.value.error.message
        ELSE IF "message" \in DOMAIN body.value /\ body.value.message # ""
             THEN body.value.message
        ELSE default

\* Mutant: the header is ignored.
RetryAfterAlwaysDefault(header) == Num(60)

\* The retry-after argument of RateLimitError.
RetryAfterValue(header) ==
    IF header.present /\ header.value # <<>> THEN parseInt(header.value) ELSE Num(60)

\* Mutant: the not-found check is missing, so a 404 falls through to the
\* generic error.
StatusErrorWithout404(url, response) ==
    IF response.status = 429
    THEN Throw([class |-> "RateLimitError", message |-> "Rate limit exceeded",
                retryAfter |-> RetryAfterValue(response.retryAfter)])
    ELSE IF response.status = 401
    THEN Throw([class |-> "AuthenticationError",
                message |-> "Authentication failed. Check your access token."])
    ELSE IF response.status = 403
    THEN Throw([class |-> "PermissionDeniedError",
                message |-> "Permission denied. Check your IAM permissions."])
    ELSE IF ~ResponseOk(response.status)
    THEN Throw([class |-> "GCloudApiError",
                message |-> ApiErrorMessage(response.status, response.body),
                statusCode |-> response.status])
    ELSE Return(Undefined)

\* The status checks of request(), in the order of the code.
StatusError(url, response) ==
    IF response.status = 429
    THEN Throw([class |-> "RateLimitError", message |-> "Rate limit exceeded",
                retryAfter |-> RetryAfterValue(response.retryAfter)])
    ELSE IF response.status = 401
    THEN Throw([class |-> "AuthenticationError",
                message |-> "Authentication failed. Check your access token."])
    ELSE IF response.status = 403
    THEN Throw([class |-> "PermissionDeniedError",
                message |-> "Permission denied. Check your IAM permissions."])
    ELSE IF response.status = 404
    THEN Throw([class |-> "NotFoundError", resourceType |-> "Resource", id |-> url])
    ELSE IF ~ResponseOk(response.status)
    THEN Throw([class |-> "GCloudApiError",
                message |-> ApiErrorMessage(response.status, response.body),
                statusCode |-> response.status])
    ELSE Return(Undefined)

\* request(), after its await: what the call evaluates to for the outcome of
\* fetch(), which is a Response or a rejection (a transport error).
requestResult(url, outcome) ==
    IF outcome.rejected THEN Throw([class |-> "TypeError", message |-> "fetch failed"])
    ELSE LET e == StatusError(url, outcome)
         IN  IF e.threw THEN e
             ELSE IF outcome.status = 204 THEN Return(Undefined)
             ELSE IF ~outcome.body.json
                  THEN Throw([class |-> "SyntaxError", message |-> "Unexpected token"])
             ELSE Return(outcome.body.value)


\* error.message, read off a caught error.
ErrorMessage(e) == [messageOf |-> e]

API_URLS ==
    [compute |-> "https://compute.googleapis.com/compute/v1",
     storage |-> "https://storage.googleapis.com/storage/v1",
     pubsub |-> "https://pubsub.googleapis.com/v1",
     resourcemanager |-> "https://cloudresourcemanager.googleapis.com/v1",
     secretmanager |-> "https://secretmanager.googleapis.com/v1",
     logging |-> "https://logging.googleapis.com/v2",
     iam |-> "https://iam.googleapis.com/v1",
     dns |-> "https://dns.googleapis.com/dns/v1"]

\* The client methods: each evaluates to the arguments of its one call of
\* this.request(url, options).  A URL is the sequence of its segments.
listInstances(projectId, zone) ==
    [url |-> <<API_URLS.compute, "projects", projectId, "zones", zone, "instances">>,
     options |-> EmptyObject]

listManagedZones(projectId) ==
    [url |-> <<API_URLS.dns, "projects", projectId, "managedZones">>,
     options |-> EmptyObject]

getInstance(projectId, zone, instanceName) ==
    [url |-> <<API_URLS.compute, "projects", projectId, "zones", zone, "instances",
               instanceName>>,
     options |-> EmptyObject]

deleteBucket(bucketName) ==
    [url |-> <<API_URLS.storage, "b", bucketName>>,
     options |-> [method |-> "DELETE"]]

publishMessage(projectId, topicName, messages) ==
    [url |-> <<API_URLS.pubsub, "projects", projectId, "topics", topicName, ":publish">>,
     options |-> [method |-> "POST", body |-> JSONstringify([messages |-> messages])]]

\* Optional arguments of a client method: the object holding those that
\* the caller does not pass as undefined.
Optionals(args, fs) == [g \in fs \cap DOMAIN args |-> args[g]]

Optional(args, f) == Optionals(args, {f})

\* pullMessages(projectId, subscriptionName, maxMessages = 10); `given` holds
\* maxMessages unless it is undefined.
pullMessages(projectId, subscriptionName, given) ==
    [url |-> <<API_URLS.pubsub, "projects", projectId, "subscriptions", subscriptionName,
               ":pull">>,
     options |-> [method |-> "POST",
                  body |-> JSONstringify([maxMessages |-> FieldOr(given, "maxMessages", 10)])]]

\* listObjects(bucketName, prefix?, maxResults?): URLSearchParams gets each
\* parameter that is truthy; `given` holds those that are not undefined.
listObjects(bucketName, given) ==
    LET prefix == IF "prefix" \in DOMAIN given /\ given.prefix # ""
                  THEN <<"prefix=", given.prefix>> ELSE <<>>
        maxResults == IF "maxResults" \in DOMAIN given /\ given.maxResults # 0
                      THEN <<"maxResults=", ToString(given.maxResults)>> ELSE <<>>
        query == IF prefix # <<>> /\ maxResults # <<>>
                 THEN prefix \o <<"&">> \o maxResults
                 ELSE prefix \o maxResults
    IN  [url |-> <<API_URLS.storage, "b", bucketName, "o">>
                 \o (IF query # <<>> THEN <<"?">> \o query ELSE <<>>),
         options |-> EmptyObject]

\* listLogEntries(projectId, filter?, pageSize = 100); JSON.stringify drops
\* an undefined filter.
listLogEntries(projectId, given) ==
    [url |-> <<API_URLS.logging, "entries:list">>,
     options |->
        [method |-> "POST",
         body |-> JSONstringify(
            [f \in {"resourceNames", "pageSize", "orderBy"} \cup ({"filter"} \cap DOMAIN given) |->
                IF f = "resourceNames" THEN <<"projects/" \o projectId>>
                ELSE IF f = "pageSize" THEN FieldOr(given, "pageSize", 100)
                ELSE IF f = "orderBy" THEN "timestamp desc"
                ELSE given.filter])]]

getProjectIamPolicy(projectId) ==
    [url |-> <<API_URLS.resourcemanager, "projects", projectId, ":getIamPolicy">>,
     options |-> [method |-> "POST", body |-> JSONstringify(EmptyObject)]]

setProjectIamPolicy(projectId, policy) ==
    [url |-> <<API_URLS.resourcemanager, "projects", projectId, ":setIamPolicy">>,
     options |-> [method |-> "POST", body |-> JSONstringify([policy |-> policy])]]

\* createSecret: `replication || { automatic: {} }`.
createSecret(projectId, secretId, replication) ==
    [url |-> <<API_URLS.secretmanager, "projects", projectId, "secrets", "?secretId=",
               secretId>>,
     options |-> [method |-> "POST",
                  body |-> JSONstringify(
                      [replication |-> IF IsUndefined(replication)
                                       THEN [automatic |-> EmptyObject]
                                       ELSE replication])]]

\* Mutant: the project is ignored, the predefined roles are listed.
listRolesPredefinedOnly(given) ==
    [url |-> <<API_URLS.iam, "roles">>, options |-> EmptyObject]

\* listRoles(projectId?): `if (projectId)` holds of a non-empty string.
listRoles(given) ==
    IF "projectId" \in DOMAIN given /\ given.projectId # ""
    THEN [url |-> <<API_URLS.iam, "projects", given.projectId, "roles">>,
          options |-> EmptyObject]
    ELSE [url |-> <<API_URLS.iam, "roles">>, options |-> EmptyObject]

\* accessSecretVersion(projectId, secretName, version = 'latest'); `given`
\* holds version unless it is undefined.
accessSecretVersion(projectId, secretName, given) ==
    [url |-> <<API_URLS.secretmanager, "projects", projectId, "secrets", secretName,
               "versions", FieldOr(given, "version", "latest"), ":access">>,
     options |-> EmptyObject]

\* addSecretVersion: btoa(payload) is evaluated while the arguments of
\* this.request() are built, so its exception comes before any request.
addSecretVersion(projectId, secretName, payload) ==
    LET b == btoa(payload)
    IN  IF b.threw THEN b
        ELSE Return([url |-> <<API_URLS.secretmanager, "projects", projectId, "secrets",
                               secretName, ":addVersion">>,
                     options |-> [method |-> "POST",
                                  body |-> JSONstringify([payload |-> [data |-> b.value]])]])

\* The request of testConnection().
testConnectionRequest(projectId) ==
    [url |-> <<API_URLS.compute, "projects", projectId>>, options |-> EmptyObject]

\* testConnection(), from the outcome of its request to its return value: its
\* catch turns every exception into a value.
testConnectionResult(projectId, r) ==
    IF r.threw
    THEN Return([connected |-> FALSE, message |-> ErrorMessage(r.error)])
    ELSE Return([connected |-> TRUE,
                 message |-> "Successfully connected to GCP project: " \o projectId])

\* testConnection() without a project id: no request is made.
testConnectionNoProject ==
    Return([connected |-> FALSE,
            message |-> "No project ID provided. Set X-GCloud-Project-ID header."])

\* A client method called by itself: the arguments of its this.request(), or
\* the exception raised while they are built.
MethodRequest(method, args) ==
    IF method = "listInstances" THEN Return(listInstances(args.projectId, args.zone))
    ELSE IF method = "deleteBucket" THEN Return(deleteBucket(args.bucketName))
    ELSE IF method = "listRoles" THEN Return(listRoles(Optional(args, "projectId")))
    ELSE IF method = "pullMessages"
         THEN Return(pullMessages(args.projectId, args.subscriptionName,
                                  Optional(args, "maxMessages")))
    ELSE IF method = "setProjectIamPolicy"
         THEN Return(setProjectIamPolicy(args.projectId, args.policy))
    ELSE addSecretVersion(args.projectId, args.secretName, args.payload)

\* A client method from its call to its first await or to its settling.
MethodStart(this, method, args) ==
    IF method = "testConnection"
    THEN IF this.credentials.projectId # ""
         THEN LET m == testConnectionRequest(this.credentials.projectId)
                  f == requestFetch(this, m.url, m.options)
              IN  IF f.threw
                  THEN [t |-> "settled",
                        settled |-> testConnectionResult(this.credentials.projectId, f)]
                  ELSE [t |-> "await", fetch |-> f.value]
         ELSE [t |-> "settled", settled |-> testConnectionNoProject]
    ELSE LET m == MethodRequest(method, args)
         IN  IF m.threw THEN [t |-> "settled", settled |-> m]
             ELSE LET f == requestFetch(this, m.value.url, m.value.options)
                  IN  IF f.threw THEN [t |-> "settled", settled |-> f]
                      ELSE [t |-> "await", fetch |-> f.value]

\* The promise of a client method when its request() settled as rr.
MethodResume(this, method, rr) ==
    IF method = "testConnection"
    THEN testConnectionResult(this.credentials.projectId, rr)
    ELSE rr

-----------------------------------------------------------------------------
(* src/src/tools/*.ts and the gcloud_test_connection tool of index.ts: the  *)
(* handlers.  A handler runs until it returns an envelope (Finish) or      *)
(* awaits a fetch (Await); it is resumed with the outcome of that fetch.   *)

Finish(envelope) == [t |-> "finish", envelope |-> envelope]

Await(fetchArg, step) == [t |-> "await", fetch |-> fetchArg, step |-> step]

\* Mutant: the catch block answers through formatResponse.
ToolCatchAsResponse(error) == Finish(formatResponse([caught |-> error]))

\* The catch block of every handler in tools/*.ts.
ToolCatch(error) == Finish(formatError(error))

\* The handler of gcloud_test_connection, around `await client.testConnection()`.
TestConnectionTool(r) ==
    IF r.threw
    THEN Finish([content |-> <<[type |-> "text",
                               text |-> [connectionFailed |-> ErrorMessage(r.error)]]>>,
                 isError |-> TRUE])
    ELSE Finish([content |-> <<[type |-> "text", text |-> JSONstringify(r.value)]>>])

\* A client method reaching request(): the fetch is issued and awaited, or the
\* exception of getAuthHeaders() reaches the handler's catch.
IssueOrCatch(this, m, step) ==
    LET f == requestFetch(this, m.url, m.options)
    IN  IF f.threw THEN ToolCatch(f.error) ELSE Await(f.value, step)

\* Mutant: the caller's bindings are added to the current ones.
PolicyToSetKeepsBindings(current, bindings) ==
    [f \in {"bindings"} \cup ({"version", "etag"} \cap DOMAIN current) |->
        IF f = "bindings" THEN FieldOr(current, "bindings", <<>>) \o bindings
        ELSE current[f]]

\* The policy gcloud_set_project_iam_policy writes: {version: current.version,
\* bindings, etag: current.etag}; JSON.stringify drops an undefined field.
PolicyToSet(current, bindings) ==
    [f \in {"bindings"} \cup ({"version", "etag"} \cap DOMAIN current) |->
        IF f = "bindings" THEN bindings ELSE current[f]]

\* The message gcloud_publish_message hands to the client: {data: btoa(data),
\* attributes}; JSON.stringify drops attributes when they are undefined.
PublishedMessage(encoded, args) ==
    [f \in {"data"} \cup ({"attributes"} \cap DOMAIN args) |->
        IF f = "data" THEN encoded ELSE args[f]]

\* Mutant: a message that carries data is returned without decoding it.
PulledMessageUndecoded(rm) ==
    LET msg == FieldOr(rm, "message", EmptyObject)
        kept == ({"ackId"} \cap DOMAIN rm)
                \cup ({"messageId", "data", "attributes", "publishTime"} \cap DOMAIN msg)
    IN  Return([f \in kept |-> IF f = "ackId" THEN rm.ackId ELSE msg[f]])

\* The map callback of gcloud_pull_messages on one received message: the
\* fields are read through rm.message?., data is decoded when it is truthy
\* and undefined otherwise; an undefined field is dropped by JSON.stringify.
PulledMessage(rm) ==
    LET msg == FieldOr(rm, "message", EmptyObject)
        hasData == "data" \in DOMAIN msg /\ msg.data # <<>>
        d == IF hasData THEN atob(msg.data) ELSE Return(<<>>)
        kept == ({"ackId"} \cap DOMAIN rm)
                \cup ({"messageId", "attributes", "publishTime"} \cap DOMAIN msg)
                \cup (IF hasData THEN {"data"} ELSE {})
    IN  IF d.threw THEN d
        ELSE Return([f \in kept |-> IF f = "ackId" THEN rm.ackId
                                    ELSE IF f = "data" THEN d.value
                                    ELSE msg[f]])

\* (result.receivedMessages || []).map(...): the first exception ends it.
PulledMessages(value) ==
    LET rms == FieldOr(value, "receivedMessages", <<>>)
        each == [i \in 1 .. Len(rms) |-> PulledMessage(rms[i])]
    IN  IF \E i \in 1 .. Len(rms) : each[i].threw
        THEN each[CHOOSE i \in 1 .. Len(rms) :
                    each[i].threw /\ \A j \in 1 .. i - 1 : ~each[j].threw]
        ELSE Return([i \in 1 .. Len(rms) |-> each[i].value])

\* gcloud_access_secret_version: `payload.data ? atob(payload.data) : ''`,
\* where `payload` is what accessSecretVersion returned, the whole response.
SecretData(payload) ==
    IF "data" \in DOMAIN payload /\ payload.data # <<>> THEN atob(payload.data)
    ELSE Return(<<>>)

\* The field of the provider's response a list tool returns.
ListField ==
    [gcloud_list_instances |-> "items", gcloud_list_objects |-> "items",
     gcloud_list_log_entries |-> "entries", gcloud_list_roles |-> "roles",
     gcloud_list_managed_zones |-> "managedZones"]

\* Mutant: the handler answers with the whole page object.
WholePage(value, f) == value

\* `result.field || []`
OrEmptyArray(value, f) == FieldOr(value, f, <<>>)

\* The one client call of a handler that makes a single call.
ToolCall(tool, args) ==
    IF tool = "gcloud_list_instances" THEN listInstances(args.projectId, args.zone)
    ELSE IF tool = "gcloud_list_managed_zones" THEN listManagedZones(args.projectId)
    ELSE IF tool = "gcloud_get_instance"
         THEN getInstance(args.projectId, args.zone, args.instanceName)
    ELSE IF tool = "gcloud_delete_bucket" THEN deleteBucket(args.bucketName)
    ELSE IF tool = "gcloud_pull_messages"
         THEN pullMessages(args.projectId, args.subscriptionName,
                           Optional(args, "maxMessages"))
    ELSE IF tool = "gcloud_list_roles" THEN listRoles(Optional(args, "projectId"))
    ELSE IF tool = "gcloud_list_objects"
         THEN listObjects(args.bucketName, Optionals(args, {"prefix", "maxResults"}))
    ELSE IF tool = "gcloud_list_log_entries"
         THEN listLogEntries(args.projectId, Optionals(args, {"filter", "pageSize"}))
    ELSE IF tool = "gcloud_access_secret_version"
         THEN accessSecretVersion(args.projectId, args.secretName, Optional(args, "version"))
    ELSE IF tool = "gcloud_create_secret"
         THEN createSecret(args.projectId, args.secretId,
                           IF args.automatic THEN [automatic |-> EmptyObject]
                           ELSE Undefined)
    ELSE getProjectIamPolicy(args.projectId)

\* A handler from its invocation to its first await or its return.
ToolStart(this, tool, args) ==
    IF tool = "gcloud_test_connection"
    THEN IF this.credentials.projectId # ""
         THEN LET m == testConnectionRequest(this.credentials.projectId)
                  f == requestFetch(this, m.url, m.options)
              IN  IF f.threw
                  THEN TestConnectionTool(testConnectionResult(this.credentials.projectId, f))
                  ELSE Await(f.value, 1)
         ELSE TestConnectionTool(testConnectionNoProject)
    ELSE IF tool = "gcloud_publish_message"
    THEN LET b == btoa(args.data)
         IN  IF b.threw THEN ToolCatch(b.error)
             ELSE IssueOrCatch(this,
                               publishMessage(args.projectId, args.topicName,
                                              <<PublishedMessage(b.value, args)>>), 1)
    ELSE IF tool = "gcloud_set_project_iam_policy"
    THEN IssueOrCatch(this, getProjectIamPolicy(args.projectId), 1)
    ELSE IF tool = "gcloud_add_secret_version"
    THEN LET m == addSecretVersion(args.projectId, args.secretName, args.payload)
         IN  IF m.threw THEN ToolCatch(m.error) ELSE IssueOrCatch(this, m.value, 1)
    ELSE IssueOrCatch(this, ToolCall(tool, args), 1)

\* The rest of a handler after its last client call returned `value`.
ToolReturn(tool, args, value) ==
    IF tool \in DOMAIN ListField
    THEN IF IsUndefined(value)
         THEN ToolCatch([class |-> "TypeError",
                         message |-> "reading '" \o ListField[tool] \o "' of undefined"])
         ELSE Finish(formatResponse(OrEmptyArray(value, ListField[tool])))
    ELSE IF tool = "gcloud_publish_message"
    THEN IF IsUndefined(value)
         THEN ToolCatch([class |-> "TypeError",
                         message |-> "reading 'messageIds' of undefined"])
         ELSE Finish(formatResponse([success |-> TRUE, message |-> "Message published",
                                     messageIds |-> FieldOr(value, "messageIds", Undefined)]))
    ELSE IF tool = "gcloud_pull_messages"
    THEN IF IsUndefined(value)
         THEN ToolCatch([class |-> "TypeError",
                         message |-> "reading 'receivedMessages' of undefined"])
         ELSE LET ms == PulledMessages(value)
              IN  IF ms.threw THEN ToolCatch(ms.error) ELSE Finish(formatResponse(ms.value))
    ELSE IF tool = "gcloud_delete_bucket"
    THEN Finish(formatResponse([success |-> TRUE,
                                message |-> "Bucket " \o args.bucketName \o " deleted"]))
    ELSE IF tool = "gcloud_set_project_iam_policy"
    THEN Finish(formatResponse([success |-> TRUE, message |-> "IAM policy updated",
                                policy |-> value]))
    ELSE IF tool = "gcloud_access_secret_version"
    THEN IF IsUndefined(value)
         THEN ToolCatch([class |-> "TypeError", message |-> "reading 'data' of undefined"])
         ELSE LET d == SecretData(value)
              IN  IF d.threw THEN ToolCatch(d.error)
                  ELSE Finish(formatResponse([secretName |-> args.secretName,
                                              version |-> args.version,
                                              data |-> d.value]))
    ELSE IF tool = "gcloud_add_secret_version"
    THEN Finish(formatResponse([success |-> TRUE, message |-> "Secret version added",
                                version |-> value]))
    ELSE IF tool = "gcloud_create_secret"
    THEN Finish(formatResponse([success |-> TRUE,
                                message |-> "Secret " \o args.secretId \o " created",
                                secret |-> value]))
    ELSE Finish(formatResponse(value))

\* Mutant: the handler answers with the policy it read and never writes.
SetPolicyWithoutWrite(this, args, current) ==
    Finish(formatResponse([success |-> TRUE, message |-> "IAM policy updated",
                           policy |-> current]))

\* What gcloud_set_project_iam_policy does with the current policy it read.
SetPolicyAfterGet(this, args, current) ==
    IF IsUndefined(current)
    THEN ToolCatch([class |-> "TypeError", message |-> "reading 'version' of undefined"])
    ELSE IssueOrCatch(this,
                      setProjectIamPolicy(args.projectId,
                                          PolicyToSet(current, args.bindings)), 2)

\* Mutant: a rate-limited first request is issued once more.
ToolOnErrorRetry(this, tool, args, step, fetchArg, error) ==
    IF error.class = "RateLimitError" /\ step = 1
    THEN Await(fetchArg, 2)
    ELSE Finish(formatError(error))

\* What a handler of tools/*.ts does when its awaited client call threw.
ToolOnError(this, tool, args, step, fetchArg, error) == ToolCatch(error)

\* A handler resumed when the request() it awaits settled as r (a thrown
\* error or a returned value).
ToolResume(this, tool, args, step, fetchArg, r) ==
    IF tool = "gcloud_test_connection"
    THEN TestConnectionTool(testConnectionResult(this.credentials.projectId, r))
    ELSE IF r.threw THEN ToolOnError(this, tool, args, step, fetchArg, r.error)
    ELSE IF tool = "gcloud_set_project_iam_policy" /\ step = 1
         THEN SetPolicyAfterGet(this, args, r.value)
    ELSE ToolReturn(tool, args, r.value)


-----------------------------------------------------------------------------
(* The argument schemas of server.tool(): the MCP server parses the raw     *)
(* arguments with them and calls the handler with the parsed ones, or       *)
(* refuses the call.  A raw number is [n, tenths], the value n + tenths/10. *)

Number(n) == [n |-> n, tenths |-> 0]

\* z.<type>().default(v): v for an argument that is not given.
WithDefault(raw, f, v) ==
    IF f \in DOMAIN raw THEN raw
    ELSE [g \in DOMAIN raw \cup {f} |-> IF g = f THEN v ELSE raw[g]]

\* Mutant: the schema lacks .max(1000).
LimitFieldWithoutMax(raw, f, hasDefault, default) ==
    IF f \notin DOMAIN raw
    THEN Return(IF hasDefault THEN WithDefault(raw, f, default) ELSE raw)
    ELSE IF raw[f].tenths # 0 \/ raw[f].n < 1
    THEN Throw([class |-> "ZodError", path |-> f])
    ELSE Return([raw EXCEPT ![f] = raw[f].n])

\* z.number().int().min(1).max(1000), with .default(default) or .optional().
LimitField(raw, f, hasDefault, default) ==
    IF f \notin DOMAIN raw
    THEN Return(IF hasDefault THEN WithDefault(raw, f, default) ELSE raw)
    ELSE IF raw[f].tenths # 0 \/ raw[f].n < 1 \/ raw[f].n > 1000
    THEN Throw([class |-> "ZodError", path |-> f])
    ELSE Return([raw EXCEPT ![f] = raw[f].n])

SchemaParse(tool, raw) ==
    IF tool = "gcloud_pull_messages" THEN LimitField(raw, "maxMessages", TRUE, 10)
    ELSE IF tool = "gcloud_list_log_entries" THEN LimitField(raw, "pageSize", TRUE, 100)
    ELSE IF tool = "gcloud_list_objects" THEN LimitField(raw, "maxResults", FALSE, 0)
    ELSE IF tool = "gcloud_create_secret" THEN Return(WithDefault(raw, "automatic", TRUE))
    ELSE IF tool = "gcloud_access_secret_version"
         THEN Return(WithDefault(raw, "version", "latest"))
    ELSE Return(raw)

-----------------------------------------------------------------------------
(* The provider behind fetch(): what the Google Cloud endpoints answer.    *)

NoHeader == [present |-> FALSE, value |-> <<>>]

NoBody == [json |-> FALSE, value |-> Undefined]

JsonBody(v) == [json |-> TRUE, value |-> v]

HttpResponse(status, retryAfter, body) ==
    [rejected |-> FALSE, status |-> status, retryAfter |-> retryAfter, body |-> body]

\* fetch() rejecting: a transport error, no response.
Rejected == [rejected |-> TRUE, status |-> 0, retryAfter |-> NoHeader, body |-> NoBody]

Endpoint(fetchArg) == fetchArg.url[Len(fetchArg.url)]

\* The policy a setIamPolicy request asks for.
SentPolicy(fetchArg) == fetchArg.body.json.policy

\* setIamPolicy is refused when the request carries an etag that is not the
\* current one (the etag the handler reads first "to preserve").
StaleEtag(fetchArg, policy) ==
    /\ Endpoint(fetchArg) = ":setIamPolicy"
    /\ "etag" \in DOMAIN SentPolicy(fetchArg)
    /\ SentPolicy(fetchArg).etag # policy.etag

\* The provider's policy after a request it accepted.
PolicyAfter(fetchArg, policy) ==
    IF Endpoint(fetchArg) = ":setIamPolicy"
    THEN [version |-> FieldOr(SentPolicy(fetchArg), "version", policy.version),
          bindings |-> SentPolicy(fetchArg).bindings,
          etag |-> policy.etag + 1]
    ELSE policy

\* The JSON value of a successful answer.
SuccessValue(fetchArg, policy) ==
    IF Endpoint(fetchArg) = ":getIamPolicy" THEN policy
    ELSE IF Endpoint(fetchArg) = ":setIamPolicy" THEN PolicyAfter(fetchArg, policy)
    ELSE IF Endpoint(fetchArg) = "instances"
         THEN [items |-> <<[name |-> "vm-1"]>>, nextPageToken |-> "page-2"]
    ELSE IF Endpoint(fetchArg) = ":publish" THEN [messageIds |-> <<"m-1">>]
    ELSE IF Endpoint(fetchArg) = ":pull"
         THEN [receivedMessages |->
                 <<[ackId |-> "ack-1",
                    message |-> [messageId |-> "m-1", data |-> <<18, 6, 36, 64>>]],
                   [ackId |-> "ack-2",
                    message |-> [messageId |-> "m-2", attributes |-> [origin |-> "test"]]],
                   [ackId |-> "ack-3"]>>]
    ELSE IF Endpoint(fetchArg) = ":access"
         THEN [name |-> "versions/1", payload |-> [data |-> <<18, 6, 36, 64>>]]
    ELSE IF Endpoint(fetchArg) = "roles"
         THEN [roles |-> <<[name |-> "roles/viewer"]>>, nextPageToken |-> "page-2"]
    ELSE IF Endpoint(fetchArg) = "entries:list"
         THEN [entries |-> <<[logName |-> "log-1"]>>, nextPageToken |-> "page-2"]
    ELSE IF Endpoint(fetchArg) = "managedZones"
         THEN [managedZones |-> <<[name |-> "zone-a"], [name |-> "zone-b"]>>,
               nextPageToken |-> "page-2"]
    ELSE IF Endpoint(fetchArg) = "o"
         THEN [items |-> <<[name |-> "object-1"]>>, nextPageToken |-> "page-2"]
    ELSE [name |-> Endpoint(fetchArg)]

\* A JSON answer whose base64 text cannot be decoded.
UndecodableValue(fetchArg) ==
    IF Endpoint(fetchArg) = ":pull"
    THEN [receivedMessages |-> <<[ackId |-> "ack-1", message |-> [data |-> <<18>>]]>>]
    ELSE [data |-> <<18>>]

ConflictBody == JsonBody([error |-> [message |-> "etag mismatch"]])

\* A provider in good health answers every request the one way its state
\* prescribes: 204 to a DELETE, 409 to a stale write, 200 otherwise.
HealthyOutcome(fetchArg, policy) ==
    IF StaleEtag(fetchArg, policy)
    THEN [outcome |-> HttpResponse(409, NoHeader, ConflictBody), policy |-> policy]
    ELSE IF fetchArg.method = "DELETE"
    THEN [outcome |-> HttpResponse(204, NoHeader, NoBody), policy |-> policy]
    ELSE [outcome |-> HttpResponse(200, NoHeader, JsonBody(SuccessValue(fetchArg, policy))),
          policy |-> PolicyAfter(fetchArg, policy)]

\* Statuses whose body request() never reads, statuses whose body it parses
\* for a message, and the successful ones.
FixedErrorStatuses == {401, 403, 404}

OtherErrorStatuses == {300, 400, 409, 500}

SuccessStatuses == {200, 299}

\* Retry-After headers of a 429: absent, empty, "30", "120", "Wed".
RetryAfterHeaders ==
    {NoHeader, [present |-> TRUE, value |-> <<>>],
     [present |-> TRUE, value |-> <<51, 48>>],
     [present |-> TRUE, value |-> <<49, 50, 48>>],
     [present |-> TRUE, value |-> <<87, 101, 100>>]}

ErrorBodies ==
    {NoBody, JsonBody(EmptyObject), JsonBody([message |-> "flat message"]),
     JsonBody([error |-> [message |-> "nested message"]])}

\* Every outcome a request can meet: a transport error, any status, a body
\* that is or is not the JSON the endpoint documents.
AnyOutcome(fetchArg, policy) ==
    {[outcome |-> Rejected, policy |-> policy]}
    \cup {[outcome |-> HttpResponse(429, h, b), policy |-> policy] :
            h \in RetryAfterHeaders,
            b \in {NoBody, JsonBody([error |-> [message |-> "nested message"]])}}
    \cup {[outcome |-> HttpResponse(st, NoHeader, NoBody), policy |-> policy] :
            st \in FixedErrorStatuses}
    \cup {[outcome |-> HttpResponse(st, NoHeader, b), policy |-> policy] :
            st \in OtherErrorStatuses, b \in ErrorBodies}
    \cup {[outcome |-> HttpResponse(204, NoHeader, NoBody),
           policy |-> IF StaleEtag(fetchArg, policy) THEN policy
                      ELSE PolicyAfter(fetchArg, policy)]}
    \cup {[outcome |-> HttpResponse(st, NoHeader, b),
           policy |-> PolicyAfter(fetchArg, policy)] :
            st \in IF StaleEtag(fetchArg, policy) THEN {} ELSE SuccessStatuses,
            b \in {NoBody, JsonBody(EmptyObject),
                   JsonBody(SuccessValue(fetchArg, policy)),
                   JsonBody(UndecodableValue(fetchArg))}}

\* Pub/Sub refuses a message that has neither data nor attributes.
EmptyMessage(msg) == msg.data = <<>> /\ "attributes" \notin DOMAIN msg

\* A published message as Pub/Sub hands it out: an empty data field is left
\* out of the JSON.
StoredMessage(msg, id) ==
    [f \in {"messageId", "publishTime"}
            \cup (IF msg.data # <<>> THEN {"data"} ELSE {})
            \cup ({"attributes"} \cap DOMAIN msg) |->
        IF f = "messageId" THEN id
        ELSE IF f = "publishTime" THEN "2024-01-01T00:00:00Z"
        ELSE msg[f]]

Min(a, b) == IF a <= b THEN a ELSE b

\* The answer to :pull: up to maxMessages of the topic's messages, {} when
\* there is none.  Nothing is acknowledged, so the messages stay.
PullAnswer(fetchArg, st) ==
    LET n == Min(fetchArg.body.json.maxMessages, Len(st.topic))
    IN  IF n = 0 THEN EmptyObject
        ELSE [receivedMessages |->
                [i \in 1 .. n |-> [ackId |-> "ack-" \o ToString(i), message |-> st.topic[i]]]]

VersionName(k) == "versions/" \o ToString(k)

\* The answer to :access of the latest version: AccessSecretVersionResponse,
\* {name, payload}, where payload is the SecretPayload {data} that was given
\* to :addVersion; empty data is left out of the JSON.
AccessAnswer(st) ==
    LET k == Len(st.versions)
        p == st.versions[k]
    IN  [name |-> VersionName(k),
         payload |-> IF p.data = <<>> THEN EmptyObject ELSE p]

\* A provider in good health that keeps what it is given: the topic's
\* messages in the order they were published.
HealthyAnswer(fetchArg, policy, st) ==
    IF Endpoint(fetchArg) = ":publish"
    THEN LET msg == fetchArg.body.json.messages[1]
             id == "m-" \o ToString(Len(st.topic) + 1)
         IN  IF EmptyMessage(msg)
             THEN [outcome |-> HttpResponse(400, NoHeader,
                                            JsonBody([error |-> [message |-> "empty message"]])),
                   policy |-> policy, store |-> st]
             ELSE [outcome |-> HttpResponse(200, NoHeader, JsonBody([messageIds |-> <<id>>])),
                   policy |-> policy,
                   store |-> [st EXCEPT !.topic = Append(@, StoredMessage(msg, id))]]
    ELSE IF Endpoint(fetchArg) = ":pull"
    THEN [outcome |-> HttpResponse(200, NoHeader, JsonBody(PullAnswer(fetchArg, st))),
          policy |-> policy, store |-> st]
    ELSE IF Endpoint(fetchArg) = ":addVersion"
    THEN [outcome |-> HttpResponse(200, NoHeader,
                                   JsonBody([name |-> VersionName(Len(st.versions) + 1),
                                             state |-> "ENABLED"])),
          policy |-> policy,
          store |-> [st EXCEPT !.versions = Append(@, fetchArg.body.json.payload)]]
    ELSE IF Endpoint(fetchArg) = ":access"
    THEN [outcome |-> IF st.versions = <<>>
                      THEN HttpResponse(404, NoHeader, NoBody)
                      ELSE HttpResponse(200, NoHeader, JsonBody(AccessAnswer(st))),
          policy |-> policy, store |-> st]
    ELSE [outcome |-> HealthyOutcome(fetchArg, policy).outcome,
          policy |-> HealthyOutcome(fetchArg, policy).policy, store |-> st]

InitialStore == [topic |-> <<>>, versions |-> <<>>]

InitialPolicy ==
    [version |-> 1,
     bindings |-> <<[role |-> "roles/owner", members |-> <<"user:owner">>]>>,
     etag |-> 0]

-----------------------------------------------------------------------------
(* src/src/types/env.ts *)

\* parseTenantCredentials(request): the two documented headers; an absent
\* header is the empty string.
parseTenantCredentials(request) ==
    [accessToken |-> request.headers.XGCloudAccessToken,
     projectId |-> request.headers.XGCloudProjectID]

\* validateCredentials(credentials): throws unless the required header came.
validateCredentials(creds) ==
    IF creds.accessToken = ""
    THEN Throw([class |-> "Error", message |-> "Missing X-GCloud-Access-Token header"])
    ELSE Return(Undefined)

-----------------------------------------------------------------------------
(* src/src/index.ts *)

\* The tools each register function adds (one tool per handler shape).
registerComputeTools == {"gcloud_list_instances", "gcloud_get_instance"}

registerStorageTools == {"gcloud_delete_bucket", "gcloud_list_objects"}

registerLoggingTools == {"gcloud_list_log_entries"}

registerPubSubTools == {"gcloud_publish_message", "gcloud_pull_messages"}

registerIamTools ==
    {"gcloud_get_project_iam_policy", "gcloud_set_project_iam_policy", "gcloud_list_roles"}

registerSecretManagerTools ==
    {"gcloud_create_secret", "gcloud_access_secret_version", "gcloud_add_secret_version"}

registerDnsTools == {"gcloud_list_managed_zones"}

\* createStatelessServer(credentials): a new McpServer and a new client, the
\* client captured by every tool registered on that server.
createStatelessServer(creds) ==
    [server |-> [name |-> SERVER_NAME, version |-> SERVER_VERSION,
                 tools |-> registerComputeTools \cup registerStorageTools
                           \cup registerPubSubTools \cup registerIamTools
                           \cup registerSecretManagerTools \cup registerDnsTools
                           \cup registerLoggingTools
                           \cup {"gcloud_test_connection"}],
     client |-> GCloudClientImpl(creds)]

\* new Response(body, init): the status defaults to 200.
Response(body, init) == [status |-> FieldOr(init, "status", 200), body |-> body]

HealthResponse ==
    Response(JSONstringify([status |-> "ok", server |-> SERVER_NAME]), EmptyObject)

UnauthorizedResponse(error) ==
    Response(JSONstringify([error |-> "Unauthorized", message |-> ErrorMessage(error),
                            required_headers |-> <<"X-GCloud-Access-Token">>]),
             [status |-> 401])

SseResponse ==
    Response([text |-> "SSE endpoint requires Durable Objects. Enable in wrangler.jsonc."],
             [status |-> 501])

DefaultResponse ==
    Response(JSONstringify([name |-> SERVER_NAME, version |-> SERVER_VERSION,
                            endpoints |-> [mcp |-> "/mcp (POST) - Streamable HTTP MCP endpoint",
                                           health |-> "/health - Health check"]]),
             EmptyObject)

\* What fetch() leaves behind when it answers by itself.
Answered(creds, response) ==
    [credentials |-> creds, server |-> None, client |-> None, response |-> response]

\* Mutant: the server and its client are built before the credentials are
\* validated.
McpBranchBuildsFirst(request) ==
    LET creds == parseTenantCredentials(request)
        v == validateCredentials(creds)
        s == createStatelessServer(creds)
    IN  [credentials |-> creds, server |-> s.server, client |-> s.client,
         response |-> IF v.threw THEN UnauthorizedResponse(v.error) ELSE None]

\* The /mcp branch of fetch(): credentials are parsed and validated; the
\* server and its client are built only for valid ones and the request is
\* handed to the MCP handler (no Response of fetch's own).
McpBranch(request) ==
    LET creds == parseTenantCredentials(request)
        v == validateCredentials(creds)
    IN  IF v.threw THEN Answered(creds, UnauthorizedResponse(v.error))
        ELSE LET s == createStatelessServer(creds)
             IN  [credentials |-> creds, server |-> s.server, client |-> s.client,
                  response |-> None]

\* Mutant: the credentials are validated before any route is looked at.
fetchValidatesFirst(request) ==
    LET creds == parseTenantCredentials(request)
        v == validateCredentials(creds)
    IN  IF v.threw THEN Answered(creds, UnauthorizedResponse(v.error))
        ELSE IF request.path = "/health" THEN Answered(None, HealthResponse)
        ELSE IF request.path = "/mcp" /\ request.method = "POST" THEN McpBranch(request)
        ELSE IF request.path = "/sse" THEN Answered(None, SseResponse)
        ELSE Answered(None, DefaultResponse)

\* fetch(request, env, ctx): the routes in the order of the code.
fetch(request) ==
    IF request.path = "/health" THEN Answered(None, HealthResponse)
    ELSE IF request.path = "/mcp" /\ request.method = "POST" THEN McpBranch(request)
    ELSE IF request.path = "/sse" THEN Answered(None, SseResponse)
    ELSE Answered(None, DefaultResponse)

\* new GCloudMcpAgent: its McpServer has no tool.
NewAgent == [tools |-> {}, state |-> "constructed"]

\* Mutant: init() registers the tools and completes.
AgentInitRegisters(a) ==
    [a EXCEPT !.state = "ready", !.tools = registerComputeTools \cup registerIamTools]

\* init(): the throw is its only statement; no tool is registered.
AgentInitResult(a) == [a EXCEPT !.state = "initFailed"]


-----------------------------------------------------------------------------
(* The workloads *)

Paths == {"/health", "/mcp", "/sse", "/"}

Methods == {"GET", "POST"}

AccessTokens == {"token-A", "token-B"}

ProjectId == "proj-1"

\* An absent header is the empty string.
Inbounds ==
    [path : Paths, method : Methods,
     headers : [XGCloudAccessToken : AccessTokens \cup {""},
                XGCloudProjectID : {ProjectId, ""}]]

BindingLists ==
    {<<[role |-> "roles/viewer", members |-> <<"user:a">>]>>,
     <<[role |-> "roles/editor", members |-> <<"user:b">>]>>}

\* "Hi" and the one-unit string U+03C0, which is outside Latin-1.
DataStrings == {<<72, 105>>, <<960>>}

\* The limits a caller passes: none, 0, 1, 2.5, 1000, 1001.
Limits ==
    {None, Number(0), Number(1), [n |-> 2, tenths |-> 5], Number(1000), Number(1001)}

\* The raw arguments with the limit, when one is passed.
WithLimit(raw, f, l) ==
    IF IsNone(l) THEN raw
    ELSE [g \in DOMAIN raw \cup {f} |-> IF g = f THEN l ELSE raw[g]]

ToolCalls ==
    {[tool |-> "gcloud_list_instances",
      args |-> [projectId |-> ProjectId, zone |-> "zone-1"]],
     [tool |-> "gcloud_list_managed_zones", args |-> [projectId |-> ProjectId]],
     [tool |-> "gcloud_get_instance",
      args |-> [projectId |-> ProjectId, zone |-> "zone-1", instanceName |-> "vm-1"]],
     [tool |-> "gcloud_delete_bucket", args |-> [bucketName |-> "bucket-1"]],
     [tool |-> "gcloud_get_project_iam_policy", args |-> [projectId |-> ProjectId]],
     [tool |-> "gcloud_test_connection", args |-> EmptyObject]}
    \cup {[tool |-> "gcloud_publish_message",
           args |-> [projectId |-> ProjectId, topicName |-> "topic-1", data |-> d]] :
            d \in DataStrings}
    \cup {[tool |-> "gcloud_set_project_iam_policy",
           args |-> [projectId |-> ProjectId, bindings |-> b]] : b \in BindingLists}
    \cup {[tool |-> "gcloud_create_secret",
           args |-> [projectId |-> ProjectId, secretId |-> "secret-1", automatic |-> a]] :
            a \in BOOLEAN}
    \cup {[tool |-> "gcloud_create_secret",
           args |-> [projectId |-> ProjectId, secretId |-> "secret-1"]]}
    \cup {[tool |-> "gcloud_add_secret_version",
           args |-> [projectId |-> ProjectId, secretName |-> "secret-1", payload |-> d]] :
            d \in DataStrings}
    \cup {[tool |-> "gcloud_list_roles", args |-> a] :
            a \in {EmptyObject, [projectId |-> ""], [projectId |-> ProjectId]}}
    \cup {[tool |-> "gcloud_access_secret_version",
           args |-> a] :
            a \in {[projectId |-> ProjectId, secretName |-> "secret-1"],
                   [projectId |-> ProjectId, secretName |-> "secret-1", version |-> "2"]}}
    \cup {[tool |-> "gcloud_pull_messages",
           args |-> WithLimit([projectId |-> ProjectId, subscriptionName |-> "sub-1"],
                              "maxMessages", l)] : l \in Limits}
    \cup {[tool |-> "gcloud_list_log_entries",
           args |-> WithLimit([projectId |-> ProjectId], "pageSize", l)] : l \in Limits}
    \cup {[tool |-> "gcloud_list_objects",
           args |-> WithLimit(a, "maxResults", l)] :
            a \in {[bucketName |-> "bucket-1"],
                   [bucketName |-> "bucket-1", prefix |-> "logs/"]},
            l \in Limits}

\* The client workload: clients built for any credentials, a token or none,
\* and the methods called on them.
ClientCredentials == [accessToken : {"", "token-A"}, projectId : {"", ProjectId}]

ClientCalls ==
    {[method |-> "testConnection", args |-> EmptyObject],
     [method |-> "listInstances", args |-> [projectId |-> ProjectId, zone |-> "zone-1"]],
     [method |-> "deleteBucket", args |-> [bucketName |-> "bucket-1"]],
     [method |-> "listRoles", args |-> EmptyObject],
     [method |-> "pullMessages",
      args |-> [projectId |-> ProjectId, subscriptionName |-> "sub-1"]],
     [method |-> "setProjectIamPolicy",
      args |-> [projectId |-> ProjectId, policy |-> InitialPolicy]]}
    \cup {[method |-> "addSecretVersion",
           args |-> [projectId |-> ProjectId, secretName |-> "secret-1", payload |-> d]] :
            d \in DataStrings}

\* The concurrent workload: tool calls of two tenants on the IAM policy of
\* one project.
ConcInbounds ==
    [path : {"/mcp"}, method : {"POST"},
     headers : [XGCloudAccessToken : AccessTokens, XGCloudProjectID : {ProjectId}]]

\* The round-trip workload: one tenant publishes and pulls.
RoundInbounds ==
    [path : {"/mcp"}, method : {"POST"},
     headers : [XGCloudAccessToken : {"token-A"}, XGCloudProjectID : {ProjectId}]]

\* "", "Hi", U+00E9 (Latin-1, not ASCII) and U+03C0 (not Latin-1).
RoundStrings == {<<>>, <<72, 105>>, <<233>>, <<960>>}

RoundToolCalls ==
    {[tool |-> "gcloud_publish_message",
      args |-> [projectId |-> ProjectId, topicName |-> "topic-1", data |-> d]] :
        d \in RoundStrings}
    \cup {[tool |-> "gcloud_publish_message",
           args |-> [projectId |-> ProjectId, topicName |-> "topic-1", data |-> d,
                     attributes |-> [origin |-> "test"]]] : d \in RoundStrings}
    \cup {[tool |-> "gcloud_pull_messages",
           args |-> [projectId |-> ProjectId, subscriptionName |-> "sub-1"]]}
    \cup {[tool |-> "gcloud_add_secret_version",
           args |-> [projectId |-> ProjectId, secretName |-> "secret-1", payload |-> d]] :
            d \in RoundStrings}
    \cup {[tool |-> "gcloud_access_secret_version",
           args |-> [projectId |-> ProjectId, secretName |-> "secret-1"]]}

ConcToolCalls ==
    {c \in ToolCalls : c.tool \in {"gcloud_get_project_iam_policy",
                                   "gcloud_set_project_iam_policy"}}

-----------------------------------------------------------------------------
(* The state machine *)

Init ==
    /\ pc = [r \in Reqs |-> "idle"]
    /\ inbound = [r \in Reqs |-> None]
    /\ credentials = [r \in Reqs |-> None]
    /\ server = [r \in Reqs |-> None]
    /\ client = [r \in Reqs |-> None]
    /\ call = [r \in Reqs |-> None]
    /\ sent = [r \in Reqs |-> <<>>]
    /\ responses = [r \in Reqs |-> <<>>]
    /\ returned = [r \in Reqs |-> <<>>]
    /\ result = [r \in Reqs |-> None]
    /\ httpResp = [r \in Reqs |-> None]
    /\ iamPolicy = InitialPolicy
    /\ store = InitialStore
    /\ agent = NewAgent

\* Mutant: the client is a module-level variable every request reassigns.
BindClientGlobal(r, c) ==
    IF IsNone(c) THEN [client EXCEPT ![r] = c] ELSE [s \in Reqs |-> c]

\* `const client = createGCloudClient(credentials)`: a local of the call of
\* createStatelessServer made for request r.
BindClient(r, c) == [client EXCEPT ![r] = c]

\* Mutant: the handlers use one module-level client, the one built last
\* (here: for the highest request that has one).
SharedClient(r) ==
    LET built == {s \in Reqs : ~IsNone(client[s])}
    IN  client[CHOOSE s \in built : \A t \in built : t <= s]

\* The client the tool handlers of request r's server captured.
ClientOf(r) == client[r]

\* The worker receives an inbound request and runs fetch() up to the point
\* where it answers or hands the request to the MCP handler.
WorkerFetch(r, request) ==
    /\ pc[r] = "idle"
    /\ LET f == fetch(request)
       IN  /\ inbound' = [inbound EXCEPT ![r] = request]
           /\ credentials' = [credentials EXCEPT ![r] = f.credentials]
           /\ server' = [server EXCEPT ![r] = f.server]
           /\ client' = BindClient(r, f.client)
           /\ httpResp' = [httpResp EXCEPT ![r] = f.response]
           /\ pc' = [pc EXCEPT ![r] = IF IsNone(f.response) THEN "dispatch" ELSE "responded"]
    /\ UNCHANGED <<call, sent, responses, returned, result, iamPolicy, store, agent>>

\* A handler ran up to `k`: it returned, or it awaits a fetch it just issued.
Continue(r, c, k) ==
    IF k.t = "finish"
    THEN /\ result' = [result EXCEPT ![r] = k.envelope]
         /\ pc' = [pc EXCEPT ![r] = "done"]
         /\ call' = [call EXCEPT ![r] = c]
         /\ UNCHANGED sent
    ELSE /\ sent' = [sent EXCEPT ![r] = Append(@, k.fetch)]
         /\ pc' = [pc EXCEPT ![r] = "awaiting"]
         /\ call' = [call EXCEPT ![r] = [c EXCEPT !.step = k.step]]
         /\ UNCHANGED result

\* The MCP handler is asked for a registered tool: it refuses arguments the
\* tool's schema rejects, and otherwise the handler runs to its first await.
CallTool(r, c) ==
    /\ pc[r] = "dispatch"
    /\ c.tool \in server[r].tools
    /\ LET p == SchemaParse(c.tool, c.args)
       IN  IF p.threw
           THEN /\ pc' = [pc EXCEPT ![r] = "invalid"]
                /\ call' = [call EXCEPT ![r] = [tool |-> c.tool, args |-> c.args,
                                                step |-> 0, raw |-> c.args]]
                /\ UNCHANGED <<sent, result>>
           ELSE Continue(r, [tool |-> c.tool, args |-> p.value, step |-> 0, raw |-> c.args],
                         ToolStart(ClientOf(r), c.tool, p.value))
    /\ UNCHANGED <<inbound, credentials, server, client, responses, returned,
                   httpResp, iamPolicy, store, agent>>

\* The fetch request r awaits settles with outcome o.outcome, leaving the
\* provider with the policy o.policy; the handler runs on.
FetchSettles(r, o) ==
    LET fetchArg == sent[r][Len(sent[r])]
        rr == requestResult(fetchArg.url, o.outcome)
    IN  /\ responses' = [responses EXCEPT ![r] = Append(@, o.outcome)]
        /\ returned' = [returned EXCEPT ![r] = Append(@, rr)]
        /\ iamPolicy' = o.policy
        /\ store' = FieldOr(o, "store", store)
        /\ Continue(r, call[r],
                    ToolResume(ClientOf(r), call[r].tool, call[r].args, call[r].step,
                               fetchArg, rr))
        /\ UNCHANGED <<inbound, credentials, server, client, httpResp, agent>>

\* Any provider: every outcome is possible.
FetchResolve(r) ==
    /\ pc[r] = "awaiting"
    /\ \E o \in AnyOutcome(sent[r][Len(sent[r])], iamPolicy) : FetchSettles(r, o)

\* A provider in good health.
FetchResolveHealthy(r) ==
    /\ pc[r] = "awaiting"
    /\ FetchSettles(r, HealthyOutcome(sent[r][Len(sent[r])], iamPolicy))

\* A provider in good health that keeps the messages and secret versions.
FetchResolveStoring(r) ==
    /\ pc[r] = "awaiting"
    /\ FetchSettles(r, HealthyAnswer(sent[r][Len(sent[r])], iamPolicy, store))

\* A caller builds a client of its own with createGCloudClient.
CreateClient(r, creds) ==
    /\ pc[r] = "idle"
    /\ credentials' = [credentials EXCEPT ![r] = creds]
    /\ client' = BindClient(r, createGCloudClient(creds))
    /\ pc' = [pc EXCEPT ![r] = "client"]
    /\ UNCHANGED <<inbound, server, call, sent, responses, returned, result, httpResp,
                   iamPolicy, store, agent>>

\* The caller calls a method of its client: the method settles at once or
\* awaits the fetch it issued.
CallMethod(r, m) ==
    /\ pc[r] = "client"
    /\ call' = [call EXCEPT ![r] = m]
    /\ LET k == MethodStart(ClientOf(r), m.method, m.args)
       IN  IF k.t = "settled"
           THEN /\ result' = [result EXCEPT ![r] = k.settled]
                /\ pc' = [pc EXCEPT ![r] = "settled"]
                /\ UNCHANGED sent
           ELSE /\ sent' = [sent EXCEPT ![r] = Append(@, k.fetch)]
                /\ pc' = [pc EXCEPT ![r] = "calling"]
                /\ UNCHANGED result
    /\ UNCHANGED <<inbound, credentials, server, client, responses, returned, httpResp,
                   iamPolicy, store, agent>>

\* The fetch of a method call settles, with any outcome.
MethodSettles(r) ==
    /\ pc[r] = "calling"
    /\ \E o \in AnyOutcome(sent[r][1], iamPolicy) :
          LET rr == requestResult(sent[r][1].url, o.outcome)
          IN  /\ responses' = [responses EXCEPT ![r] = Append(@, o.outcome)]
              /\ returned' = [returned EXCEPT ![r] = Append(@, rr)]
              /\ result' = [result EXCEPT ![r] = MethodResume(ClientOf(r), call[r].method, rr)]
              /\ iamPolicy' = o.policy
    /\ pc' = [pc EXCEPT ![r] = "settled"]
    /\ UNCHANGED <<inbound, credentials, server, client, call, sent, httpResp, store, agent>>

\* The runtime starts the durable object: init() throws.
AgentInit ==
    /\ agent.state = "constructed"
    /\ agent' = AgentInitResult(agent)
    /\ UNCHANGED <<pc, inbound, credentials, server, client, call, sent, responses,
                   returned, result, httpResp, iamPolicy, store>>

\* One inbound request at a time, any request, any tool call, any provider.
Next ==
    \/ \E q \in Inbounds : WorkerFetch(1, q)
    \/ \E c \in ToolCalls : CallTool(1, c)
    \/ FetchResolve(1)
    \/ AgentInit

Spec == Init /\ [][Next]_vars

\* NReq inbound requests of two tenants in flight at once, their handlers
\* interleaved at every await, against a provider in good health.
NextConc ==
    \/ \E r \in Reqs, q \in ConcInbounds : WorkerFetch(r, q)
    \/ \E r \in Reqs, c \in ConcToolCalls : CallTool(r, c)
    \/ \E r \in Reqs : FetchResolveHealthy(r)
    \/ AgentInit

SpecConc == Init /\ [][NextConc]_vars

\* NReq inbound requests of one tenant, interleaved, against a provider that
\* keeps what is published and stored.
NextRound ==
    \/ \E r \in Reqs, q \in RoundInbounds : WorkerFetch(r, q)
    \/ \E r \in Reqs, c \in RoundToolCalls : CallTool(r, c)
    \/ \E r \in Reqs : FetchResolveStoring(r)
    \/ AgentInit

SpecRound == Init /\ [][NextRound]_vars

\* The client used by itself, outside the worker: any credentials, any
\* method, any provider.
NextClient ==
    \/ \E c \in ClientCredentials : CreateClient(1, c)
    \/ \E m \in ClientCalls : CallMethod(1, m)
    \/ MethodSettles(1)

SpecClient == Init /\ [][NextClient]_vars


-----------------------------------------------------------------------------
(* Properties *)

Settled(r) == 1 .. Len(responses[r])

\* The outcome of the i-th fetch of request r is an HTTP response that is
\* not successful.
FailedStatus(r, i) ==
    /\ ~responses[r][i].rejected
    /\ ~(responses[r][i].status \in 200 .. 299)

\* The i-th fetch of request r failed: a transport error or a status
\* outside 2xx.
FetchFailed(r, i) == responses[r][i].rejected \/ FailedStatus(r, i)

ThrewClass(x, class) == x.threw /\ x.error.class = class

\* C1: request() maps every HTTP response to one outcome by its status: 429
\* raises RateLimitError, 401 AuthenticationError, 403 PermissionDeniedError,
\* 404 NotFoundError, any other status outside 2xx GCloudApiError carrying
\* that status; a value is returned only for a 2xx status, and is returned
\* for every 204 and every 2xx whose body is JSON.
C1_StatusClassification ==
    \A r \in Reqs : \A i \in Settled(r) :
        LET o == responses[r][i]
            x == returned[r][i]
        IN  ~o.rejected =>
              /\ (o.status = 429 => ThrewClass(x, "RateLimitError"))
              /\ (o.status = 401 => ThrewClass(x, "AuthenticationError"))
              /\ (o.status = 403 => ThrewClass(x, "PermissionDeniedError"))
              /\ (o.status = 404 => ThrewClass(x, "NotFoundError"))
              /\ (o.status \notin {429, 401, 403, 404} /\ ~(o.status \in 200 .. 299)
                    => ThrewClass(x, "GCloudApiError") /\ x.error.statusCode = o.status)
              /\ (~x.threw => o.status \in 200 .. 299)
              /\ (o.status \in 200 .. 299 /\ (o.status = 204 \/ o.body.json) => ~x.threw)

\* Every class of status was answered and classified.
C1_Witness ==
    \E r \in Reqs :
        /\ pc[r] = "done"
        /\ Len(responses[r]) = 2
        /\ responses[r][1].status = 299
        /\ ~returned[r][1].threw
        /\ responses[r][2].status = 404
        /\ ThrewClass(returned[r][2], "NotFoundError")

Done(r) == pc[r] = "done"

\* C2 as stated: every tool invocation issues exactly one outbound request.
C2_ExactlyOneRequest == \A r \in Reqs : Done(r) => Len(sent[r]) = 1

\* The string invocation r has to base64-encode has a character outside
\* Latin-1.
NotLatin1Argument(r) ==
    LET str == IF call[r].tool = "gcloud_publish_message" THEN call[r].args.data
               ELSE IF call[r].tool = "gcloud_add_secret_version" THEN call[r].args.payload
               ELSE <<>>
    IN  \E i \in 1 .. Len(str) : str[i] > 255

\* The number of requests the code issues for a finished invocation.
RequestsIssued(r) ==
    IF call[r].tool = "gcloud_test_connection"
    THEN IF credentials[r].projectId # "" THEN 1 ELSE 0
    ELSE IF NotLatin1Argument(r) THEN 0
    ELSE IF call[r].tool = "gcloud_set_project_iam_policy"
    THEN IF ~returned[r][1].threw /\ ~IsUndefined(returned[r][1].value) THEN 2 ELSE 1
    ELSE 1

\* C2 (amended): gcloud_set_project_iam_policy issues two requests when its
\* getIamPolicy returned a policy object and one otherwise;
\* gcloud_test_connection issues one when the credentials carry a project id
\* and none otherwise; gcloud_publish_message and gcloud_add_secret_version
\* issue none when the string they encode is not Latin-1; every other
\* invocation issues exactly one.
C2_RequestsPerInvocation == \A r \in Reqs : Done(r) => Len(sent[r]) = RequestsIssued(r)

\* A policy write that took two requests, and a connection test that took none.
C2_Witness ==
    \E r \in Reqs :
        /\ Done(r)
        /\ call[r].tool = "gcloud_set_project_iam_policy"
        /\ Len(sent[r]) = 2
        /\ Endpoint(sent[r][1]) = ":getIamPolicy"
        /\ Endpoint(sent[r][2]) = ":setIamPolicy"

\* C3: no request is retried: after a fetch of an invocation failed (a status
\* outside 2xx or a transport error) the invocation issues no further fetch.
C3_NoRetry ==
    \A r \in Reqs : \A i \in Settled(r) : FetchFailed(r, i) => Len(sent[r]) = i

\* A 429 carrying Retry-After: 30 ended its invocation after one request.
C3_Witness ==
    \E r \in Reqs :
        /\ Done(r)
        /\ call[r].tool = "gcloud_set_project_iam_policy"
        /\ Len(sent[r]) = 1
        /\ responses[r][1].status = 429
        /\ responses[r][1].retryAfter.present
        /\ responses[r][1].retryAfter.value = <<51, 48>>


\* The text of an envelope, a JSON value.
EnvelopeJson(env) == env.content[1].text.json

\* The envelope is formatError's for an error of the given class.
IsErrorEnvelopeOf(env, class) ==
    /\ HasIsError(env)
    /\ env.isError = TRUE
    /\ Len(env.content) = 1
    /\ env.content[1].type = "text"
    /\ DOMAIN EnvelopeJson(env) = {"error", "of"}
    /\ EnvelopeJson(env).error = TRUE
    /\ EnvelopeJson(env).of.class = class

\* C4 as stated: whenever a fetch of an invocation got a status outside 2xx,
\* the result is the error envelope of that error, for every tool.
C4_FailureIsErrorEnvelope ==
    \A r \in Reqs : \A i \in Settled(r) :
        Done(r) /\ FailedStatus(r, i) =>
            /\ IsErrorEnvelopeOf(result[r], returned[r][i].error.class)
            /\ EnvelopeJson(result[r]).of = returned[r][i].error

\* C4 (amended): whenever a fetch of an invocation got a status outside 2xx,
\* every tool of tools/*.ts returns the error envelope (isError = true) of
\* the error request() raised; gcloud_test_connection returns an envelope
\* without isError whose text is {connected: false, message: that error's
\* message}.
C4_FailureEnvelope ==
    \A r \in Reqs : \A i \in Settled(r) :
        Done(r) /\ FailedStatus(r, i) =>
            IF call[r].tool = "gcloud_test_connection"
            THEN /\ ~HasIsError(result[r])
                 /\ EnvelopeJson(result[r]).connected = FALSE
                 /\ EnvelopeJson(result[r]).message = [messageOf |-> returned[r][i].error]
            ELSE /\ IsErrorEnvelopeOf(result[r], returned[r][i].error.class)
                 /\ EnvelopeJson(result[r]).of = returned[r][i].error

\* A listing refused with 403 came back as the error envelope, and a
\* connection test refused with 401 as connected: false.
C4_Witness ==
    \E r \in Reqs :
        /\ Done(r)
        /\ call[r].tool = "gcloud_list_instances"
        /\ responses[r][1].status = 403
        /\ IsErrorEnvelopeOf(result[r], "PermissionDeniedError")

\* The tool reads a field of the value its client call returned.
ReadsField(r) ==
    \/ call[r].tool \in DOMAIN ListField
    \/ call[r].tool \in {"gcloud_publish_message", "gcloud_pull_messages",
                         "gcloud_access_secret_version"}
    \/ call[r].tool = "gcloud_set_project_iam_policy" /\ Len(returned[r]) = 1

\* The class of the exception raised while serving the finished invocation
\* r, "none" when there was none: by btoa, by request(), or by reading a
\* field of undefined.
ExceptionRaised(r) ==
    IF NotLatin1Argument(r) THEN "InvalidCharacterError"
    ELSE IF returned[r] = <<>> THEN "none"
    ELSE LET x == returned[r][Len(returned[r])]
         IN  IF x.threw THEN x.error.class
             ELSE IF IsUndefined(x.value) /\ ReadsField(r) THEN "TypeError"
             ELSE IF call[r].tool = "gcloud_pull_messages" /\ PulledMessages(x.value).threw
             THEN "InvalidCharacterError"
             ELSE IF call[r].tool = "gcloud_access_secret_version"
                     /\ SecretData(x.value).threw
             THEN "InvalidCharacterError"
             ELSE "none"

\* C5 as stated: every handler ends with one envelope; an exception raised
\* during the invocation comes back through formatError with isError, and a
\* result without an exception carries no isError.
C5_ExceptionsThroughFormatError ==
    \A r \in Reqs :
        Done(r) =>
            /\ ~IsNone(result[r])
            /\ IF ExceptionRaised(r) # "none"
               THEN IsErrorEnvelopeOf(result[r], ExceptionRaised(r))
               ELSE ~HasIsError(result[r])

\* C5 (amended): every handler ends with one envelope and lets no exception
\* escape; in the tools of tools/*.ts an exception raised during the
\* invocation comes back through formatError with isError = true and a
\* result of formatResponse carries no isError; gcloud_test_connection never
\* sets isError: the exception of its request is caught inside
\* testConnection and reported as connected: false.
C5_OneEnvelope ==
    \A r \in Reqs :
        Done(r) =>
            /\ ~IsNone(result[r])
            /\ IF call[r].tool = "gcloud_test_connection"
               THEN /\ ~HasIsError(result[r])
                    /\ EnvelopeJson(result[r]).connected
                         = (returned[r] # <<>> /\ ~returned[r][1].threw)
               ELSE IF ExceptionRaised(r) # "none"
               THEN IsErrorEnvelopeOf(result[r], ExceptionRaised(r))
               ELSE ~HasIsError(result[r])

\* btoa threw on data outside Latin-1 and the handler answered through
\* formatError.
C5_Witness ==
    \E r \in Reqs :
        /\ Done(r)
        /\ call[r].tool = "gcloud_publish_message"
        /\ sent[r] = <<>>
        /\ IsErrorEnvelopeOf(result[r], "InvalidCharacterError")

\* C6: every outbound request made while serving an inbound request carries
\* Authorization: Bearer <the access token parsed from that inbound request>,
\* under every interleaving of the requests of two tenants.
C6_TenantIsolation ==
    \A r \in Reqs : \A i \in 1 .. Len(sent[r]) :
        sent[r][i].headers.Authorization = <<"Bearer", credentials[r].accessToken>>

\* Two requests of different tenants have outbound requests in flight at once.
C6_Witness ==
    \E r, s \in Reqs :
        /\ pc[r] = "awaiting" /\ pc[s] = "awaiting"
        /\ credentials[r].accessToken = "token-A"
        /\ credentials[s].accessToken = "token-B"
        /\ sent[r][1].headers.Authorization = <<"Bearer", "token-A">>
        /\ sent[s][1].headers.Authorization = <<"Bearer", "token-B">>

\* What the handler of r's call does when it runs alone from the start,
\* fed the given outcomes of its fetches: its requests and its envelope.
Replay(this, c, outcomes) ==
    LET k0 == ToolStart(this, c.tool, c.args)
    IN  IF k0.t = "finish" \/ outcomes = <<>>
        THEN [sent |-> IF k0.t = "finish" THEN <<>> ELSE <<k0.fetch>>, last |-> k0]
        ELSE LET k1 == ToolResume(this, c.tool, c.args, 1, k0.fetch,
                                  requestResult(k0.fetch.url, outcomes[1]))
             IN  IF k1.t = "finish" \/ Len(outcomes) = 1
                 THEN [sent |-> IF k1.t = "finish" THEN <<k0.fetch>>
                                ELSE <<k0.fetch, k1.fetch>>,
                       last |-> k1]
                 ELSE [sent |-> <<k0.fetch, k1.fetch>>,
                       last |-> ToolResume(this, c.tool, c.args, 2, k1.fetch,
                                           requestResult(k1.fetch.url, outcomes[2]))]

\* The outcomes a provider in good health gives the invocation when nothing
\* else touches the provider between them, starting from `policy`.
SoloOutcomes(this, c, policy) ==
    LET k0 == ToolStart(this, c.tool, c.args)
    IN  IF k0.t = "finish" THEN <<>>
        ELSE LET h1 == HealthyOutcome(k0.fetch, policy)
                 k1 == ToolResume(this, c.tool, c.args, 1, k0.fetch,
                                  requestResult(k0.fetch.url, h1.outcome))
             IN  IF k1.t = "finish" THEN <<h1.outcome>>
                 ELSE <<h1.outcome, HealthyOutcome(k1.fetch, h1.policy).outcome>>

OwnClient(r) == GCloudClientImpl(credentials[r])

\* C7 as stated: the result of an invocation is the same under every
\* interleaving, hence the one it has when it runs before all others.
C7_SameUnderEveryInterleaving ==
    \A r \in Reqs :
        Done(r) =>
            result[r] = Replay(OwnClient(r), call[r],
                               SoloOutcomes(OwnClient(r), call[r], InitialPolicy)).last.envelope

\* C7 (amended): invocations share nothing inside the server: the requests
\* an invocation issues and the result it returns are those of its handler
\* run alone with its own credentials on the responses its own requests got;
\* through the provider's state those responses, and so the results, depend
\* on the interleaving.
C7_LocalDeterminism ==
    \A r \in Reqs :
        pc[r] \in {"awaiting", "done"} =>
            LET p == Replay(OwnClient(r), call[r], responses[r])
            IN  /\ sent[r] = p.sent
                /\ Done(r) => p.last.t = "finish" /\ result[r] = p.last.envelope

\* Two gcloud_set_project_iam_policy calls on the same project both read the
\* policy before either wrote it, and the later write was refused.
C7_Witness ==
    \E r, s \in Reqs :
        /\ r # s
        /\ Done(r) /\ Done(s)
        /\ call[r].tool = "gcloud_set_project_iam_policy"
        /\ call[s].tool = "gcloud_set_project_iam_policy"
        /\ Len(responses[r]) = 2 /\ Len(responses[s]) = 2
        /\ responses[r][2].status = 200
        /\ responses[s][2].status = 409
        /\ ~HasIsError(result[r]) /\ HasIsError(result[s])

Answers(r) == pc[r] # "idle"

\* C8: a POST to /mcp whose credentials fail validateCredentials is answered
\* 401 with error 'Unauthorized' and required_headers
\* ['X-GCloud-Access-Token']; no server or client is built, no tool
\* registered, no outbound request made.
C8_Unauthorized ==
    \A r \in Reqs :
        /\ Answers(r)
        /\ inbound[r].path = "/mcp" /\ inbound[r].method = "POST"
        /\ validateCredentials(parseTenantCredentials(inbound[r])).threw
        => /\ pc[r] = "responded"
           /\ httpResp[r].status = 401
           /\ httpResp[r].body.json.error = "Unauthorized"
           /\ httpResp[r].body.json.required_headers = <<"X-GCloud-Access-Token">>
           /\ IsNone(server[r]) /\ IsNone(client[r])
           /\ sent[r] = <<>>

C8_Witness ==
    \E r \in Reqs :
        /\ pc[r] = "responded"
        /\ inbound[r].path = "/mcp" /\ inbound[r].method = "POST"
        /\ inbound[r].headers.XGCloudAccessToken = ""
        /\ httpResp[r].status = 401

\* C9: a request to /health is answered 200 with {status: 'ok', server:
\* 'primrose-mcp-gcloud'} for every method and with or without credential
\* headers; no credentials are parsed and no outbound call is made.
C9_Health ==
    \A r \in Reqs :
        Answers(r) /\ inbound[r].path = "/health"
        => /\ pc[r] = "responded"
           /\ httpResp[r].status = 200
           /\ httpResp[r].body = [json |-> [status |-> "ok", server |-> "primrose-mcp-gcloud"]]
           /\ IsNone(credentials[r]) /\ IsNone(server[r]) /\ IsNone(client[r])
           /\ sent[r] = <<>>

\* A POST to /health without any credential header was answered.
C9_Witness ==
    \E r \in Reqs :
        /\ pc[r] = "responded"
        /\ inbound[r].path = "/health" /\ inbound[r].method = "POST"
        /\ inbound[r].headers.XGCloudAccessToken = ""
        /\ httpResp[r].status = 200

\* C10: stateful mode is never usable: init() of GCloudMcpAgent fails and no
\* tool is ever registered on the agent; every request to /sse is answered
\* 501 without credentials being parsed or a server built.
C10_NoStatefulMode ==
    /\ agent.state \in {"constructed", "initFailed"}
    /\ agent.tools = {}
    /\ \A r \in Reqs :
           Answers(r) /\ inbound[r].path = "/sse"
           => /\ pc[r] = "responded"
              /\ httpResp[r].status = 501
              /\ IsNone(credentials[r]) /\ IsNone(server[r]) /\ IsNone(client[r])
              /\ sent[r] = <<>>

\* init() ran and failed, and a POST to /sse with a valid token got 501.
C10_Witness ==
    /\ agent.state = "initFailed"
    /\ \E r \in Reqs :
           /\ pc[r] = "responded"
           /\ inbound[r].path = "/sse" /\ inbound[r].method = "POST"
           /\ inbound[r].headers.XGCloudAccessToken = "token-A"
           /\ httpResp[r].status = 501


\* C11: gcloud_set_project_iam_policy issues setIamPolicy only as its second
\* request, after the response to its getIamPolicy came back with a policy;
\* the policy it sends has exactly the caller's bindings and the version and
\* etag of the policy that get returned (a field the get did not return is
\* not sent).
C11_ReadBeforeWrite ==
    \A r \in Reqs : \A i \in 1 .. Len(sent[r]) :
        call[r].tool = "gcloud_set_project_iam_policy"
        /\ Endpoint(sent[r][i]) = ":setIamPolicy"
        => /\ i = 2
           /\ Endpoint(sent[r][1]) = ":getIamPolicy"
           /\ Len(responses[r]) >= 1
           /\ ~returned[r][1].threw
           /\ LET got == returned[r][1].value
                  put == SentPolicy(sent[r][2])
              IN  /\ put.bindings = call[r].args.bindings
                  /\ DOMAIN put = {"bindings"} \cup ({"version", "etag"} \cap DOMAIN got)
                  /\ \A f \in DOMAIN put \ {"bindings"} : put[f] = got[f]

\* A write went out with the version and etag just read and the caller's
\* bindings, none of the bindings that were read.
C11_Witness ==
    \E r \in Reqs :
        /\ Len(sent[r]) = 2
        /\ call[r].tool = "gcloud_set_project_iam_policy"
        /\ returned[r][1].value = InitialPolicy
        /\ SentPolicy(sent[r][2]) =
             [version |-> 1, bindings |-> call[r].args.bindings, etag |-> 0]
        /\ call[r].args.bindings # InitialPolicy.bindings


\* The body of the create request asks for automatic replication.
AsksAutomatic(fetchArg) ==
    /\ "replication" \in DOMAIN fetchArg.body.json
    /\ "automatic" \in DOMAIN fetchArg.body.json.replication

\* C12: the create request of gcloud_create_secret asks for replication
\* {automatic: {}} when `automatic` is true and does not ask for automatic
\* replication when `automatic` is false.
C12_AutomaticDecides ==
    \A r \in Reqs : \A i \in 1 .. Len(sent[r]) :
        call[r].tool = "gcloud_create_secret"
        => (AsksAutomatic(sent[r][i]) <=> call[r].args.automatic)


\* Invocation s published a message: its tool was gcloud_publish_message and
\* it returned the message id the provider gave.
Published(s) ==
    /\ Done(s)
    /\ call[s].tool = "gcloud_publish_message"
    /\ ~HasIsError(result[s])

\* The messages a finished gcloud_pull_messages returned.
Pulled(r) ==
    IF Done(r) /\ call[r].tool = "gcloud_pull_messages" /\ ~HasIsError(result[r])
    THEN EnvelopeJson(result[r])
    ELSE <<>>

\* Message m, as returned by a pull, is the one invocation s published.
IsMessageOf(m, s) ==
    /\ Published(s)
    /\ "messageId" \in DOMAIN m
    /\ m.messageId = EnvelopeJson(result[s]).messageIds[1]

\* C13 as stated: for every data string publish accepted, the pulled message
\* carries data equal to the string published.
C13_RoundTrip ==
    \A r, s \in Reqs : \A i \in 1 .. Len(Pulled(r)) :
        IsMessageOf(Pulled(r)[i], s)
        => /\ "data" \in DOMAIN Pulled(r)[i]
           /\ Pulled(r)[i].data = call[s].args.data

\* C13 (amended): gcloud_publish_message refuses data outside Latin-1 (error
\* envelope, nothing sent); a message published with non-empty data comes
\* back from gcloud_pull_messages with data equal to the string published;
\* a message published with the empty string, or received without data,
\* comes back with data undefined.
C13_RoundTripNonEmpty ==
    /\ \A r, s \in Reqs : \A i \in 1 .. Len(Pulled(r)) :
           IsMessageOf(Pulled(r)[i], s)
           => IF call[s].args.data = <<>>
              THEN "data" \notin DOMAIN Pulled(r)[i]
              ELSE /\ "data" \in DOMAIN Pulled(r)[i]
                   /\ Pulled(r)[i].data = call[s].args.data
    /\ \A s \in Reqs :
           Done(s) /\ call[s].tool = "gcloud_publish_message"
           /\ (\E i \in 1 .. Len(call[s].args.data) : call[s].args.data[i] > 255)
           => HasIsError(result[s]) /\ sent[s] = <<>>

\* A message published with the data U+00E9 came back with that data.
C13_Witness ==
    \E r, s \in Reqs :
        /\ Pulled(r) # <<>>
        /\ IsMessageOf(Pulled(r)[1], s)
        /\ call[s].args.data = <<233>>
        /\ sent[s][1].body.json.messages[1].data = <<58, 16, 64, 64>>
        /\ Pulled(r)[1].data = <<233>>


\* Invocation s added a secret version.
Added(s) ==
    /\ Done(s)
    /\ call[s].tool = "gcloud_add_secret_version"
    /\ ~HasIsError(result[s])

\* Invocation r accessed the version invocation s added.
AccessedVersionOf(r, s) ==
    /\ Added(s)
    /\ Done(r)
    /\ call[r].tool = "gcloud_access_secret_version"
    /\ ~HasIsError(result[r])
    /\ responses[r][1].body.value.name = EnvelopeJson(result[s]).version.name

\* C14: accessing a version that was added with payload p returns data equal
\* to p (the empty string when the accessed payload has no data).
C14_SecretRoundTrip ==
    \A r, s \in Reqs :
        AccessedVersionOf(r, s) => EnvelopeJson(result[r]).data = call[s].args.payload


\* The name of the limit argument of a tool that forwards one.
LimitOf ==
    [gcloud_pull_messages |-> "maxMessages", gcloud_list_log_entries |-> "pageSize",
     gcloud_list_objects |-> "maxResults"]

\* The raw arguments of invocation r carry a limit that is not an integer in
\* 1..1000.
LimitOutOfRange(r) ==
    /\ call[r].tool \in DOMAIN LimitOf
    /\ LimitOf[call[r].tool] \in DOMAIN call[r].raw
    /\ LET l == call[r].raw[LimitOf[call[r].tool]]
       IN  l.tenths # 0 \/ l.n < 1 \/ l.n > 1000

\* The limit request q of invocation r forwards is the integer n.
Forwards(r, q, n) ==
    IF call[r].tool = "gcloud_pull_messages" THEN q.body.json.maxMessages = n
    ELSE IF call[r].tool = "gcloud_list_log_entries" THEN q.body.json.pageSize = n
    ELSE \E k \in 1 .. Len(q.url) - 1 : q.url[k] = "maxResults=" /\ q.url[k + 1] = ToString(n)

\* Request q has no limit parameter in its URL.
OmitsLimit(q) == \A k \in 1 .. Len(q.url) : q.url[k] # "maxResults="

\* C15: an outbound request of gcloud_pull_messages, gcloud_list_log_entries
\* or gcloud_list_objects forwards the caller's limit, an integer in 1..1000;
\* when the caller gives none, maxMessages is 10, pageSize is 100 and
\* maxResults is left out; a call whose limit is outside 1..1000 or not an
\* integer sends no request.
C15_LimitsInRange ==
    \A r \in Reqs :
        pc[r] \in {"invalid", "awaiting", "done"} /\ call[r].tool \in DOMAIN LimitOf
        => /\ LimitOutOfRange(r) => pc[r] = "invalid" /\ sent[r] = <<>>
           /\ \A i \in 1 .. Len(sent[r]) :
                IF LimitOf[call[r].tool] \in DOMAIN call[r].raw
                THEN /\ call[r].raw[LimitOf[call[r].tool]].n \in 1 .. 1000
                     /\ Forwards(r, sent[r][i], call[r].raw[LimitOf[call[r].tool]].n)
                ELSE IF call[r].tool = "gcloud_pull_messages" THEN Forwards(r, sent[r][i], 10)
                ELSE IF call[r].tool = "gcloud_list_log_entries"
                THEN Forwards(r, sent[r][i], 100)
                ELSE OmitsLimit(sent[r][i])

\* A listing of objects forwarded the largest limit, 1000, next to a prefix.
C15_Witness ==
    \E r \in Reqs :
        /\ pc[r] = "done"
        /\ call[r].tool = "gcloud_list_objects"
        /\ call[r].raw = [bucketName |-> "bucket-1", prefix |-> "logs/",
                          maxResults |-> Number(1000)]
        /\ sent[r][1].url = <<API_URLS.storage, "b", "bucket-1", "o", "?", "prefix=", "logs/",
                              "&", "maxResults=", "1000">>


\* C16: gcloud_list_roles sends exactly one request: to
\* /projects/<projectId>/roles when a non-empty projectId is given, to
\* /roles when projectId is omitted (or empty).
C16_RolesEndpoint ==
    \A r \in Reqs :
        pc[r] \in {"awaiting", "done"} /\ call[r].tool = "gcloud_list_roles"
        => /\ Len(sent[r]) = 1
           /\ IF "projectId" \in DOMAIN call[r].raw /\ call[r].raw.projectId # ""
              THEN sent[r][1].url
                     = <<"https://iam.googleapis.com/v1", "projects", call[r].raw.projectId,
                         "roles">>
              ELSE sent[r][1].url = <<"https://iam.googleapis.com/v1", "roles">>

\* The roles of a project were listed.
C16_Witness ==
    \E r \in Reqs :
        /\ pc[r] = "done"
        /\ call[r].tool = "gcloud_list_roles"
        /\ call[r].raw = [projectId |-> "proj-1"]
        /\ sent[r] # <<>>
        /\ sent[r][1].url[2] = "projects"
        /\ ~HasIsError(result[r])


\* The client of r has no access token and one of its methods was called.
CalledWithoutToken(r) ==
    /\ pc[r] \in {"calling", "settled"}
    /\ credentials[r].accessToken = ""

\* C17 as stated: on a client without access token every method fails with
\* AuthenticationError and no request is sent.
C17_NoTokenAuthenticationError ==
    \A r \in Reqs :
        CalledWithoutToken(r)
        => /\ sent[r] = <<>>
           /\ pc[r] = "settled"
           /\ ThrewClass(result[r], "AuthenticationError")

\* C17 (amended): on a client without access token no method sends a
\* request, and no request is ever sent without an Authorization header;
\* every method fails with AuthenticationError, except testConnection, which
\* resolves to connected: false, and addSecretVersion with a payload outside
\* Latin-1, which fails with the InvalidCharacterError of btoa.
C17_NoTokenNoFetch ==
    /\ \A r \in Reqs : \A i \in 1 .. Len(sent[r]) :
           /\ "Authorization" \in DOMAIN sent[r][i].headers
           /\ credentials[r].accessToken # ""
    /\ \A r \in Reqs :
           CalledWithoutToken(r)
           => /\ sent[r] = <<>>
              /\ pc[r] = "settled"
              /\ IF call[r].method = "testConnection"
                 THEN ~result[r].threw /\ result[r].value.connected = FALSE
                 ELSE IF call[r].method = "addSecretVersion"
                         /\ \E i \in 1 .. Len(call[r].args.payload) :
                                call[r].args.payload[i] > 255
                 THEN ThrewClass(result[r], "InvalidCharacterError")
                 ELSE ThrewClass(result[r], "AuthenticationError")

\* A write of the IAM policy on a client without token failed with
\* AuthenticationError before anything was sent.
C17_Witness ==
    \E r \in Reqs :
        /\ pc[r] = "settled"
        /\ credentials[r].accessToken = ""
        /\ call[r].method = "setProjectIamPolicy"
        /\ sent[r] = <<>>
        /\ ThrewClass(result[r], "AuthenticationError")


\* The number a string of decimal digits denotes.
RECURSIVE Decimal(_)
Decimal(str) ==
    IF str = <<>> THEN 0
    ELSE Decimal(SubSeq(str, 1, Len(str) - 1)) * 10 + (str[Len(str)] - 48)

IsDecimal(str) == str # <<>> /\ \A i \in 1 .. Len(str) : str[i] \in 48 .. 57

ListedObject(r) ==
    /\ Done(r)
    /\ call[r].tool \in DOMAIN ListField
    /\ returned[r] # <<>>
    /\ ~returned[r][1].threw
    /\ ~IsUndefined(returned[r][1].value)

\* C19: a list tool whose request was answered with a JSON object returns a
\* success envelope holding an array: the empty array when the object lacks
\* the list field, and otherwise exactly the array of that field, without
\* nextPageToken; it makes that one request and fetches no further page.
C19_ListToolsReturnArray ==
    \A r \in Reqs :
        ListedObject(r)
        => LET page == returned[r][1].value
               f == ListField[call[r].tool]
           IN  /\ Len(sent[r]) = 1
               /\ ~HasIsError(result[r])
               /\ IF f \in DOMAIN page
                  THEN EnvelopeJson(result[r]) = page[f]
                  ELSE EnvelopeJson(result[r]) = <<>>

\* A list tool was answered with {} and returned the empty array.
C19_Witness ==
    \E r \in Reqs :
        /\ ListedObject(r)
        /\ call[r].tool = "gcloud_list_instances"
        /\ returned[r][1].value = EmptyObject
        /\ EnvelopeJson(result[r]) = <<>>


====
